---- MODULE Spec2Model ----
(***************************************************************************)
(* Tasks of the CRM: the Task model (tasks/models/task.py), the task       *)
(* forms (tasks/forms.py) and the admin controller TaskAdmin               *)
(* (tasks/site/taskadmin.py).                                              *)
(*                                                                         *)
(* The database is the sequence `tasks` (row i is the task with id i), the *)
(* table of stages is `stages`, the calendar day is `today`.  One admin    *)
(* request (form validation, save_model, save_related) is one action.      *)
(* An optional value (a nullable foreign key, a nullable date) is the      *)
(* empty set or a singleton.                                               *)
(***************************************************************************)
EXTENDS Integers, FiniteSets, Sequences, TLC

\* ------------------------------------------------------------------ bounds
MaxTasks == 2
MaxDay == 1
MaxDateTasks == 1
MaxTreeTasks == 3
MaxCopies == 2

Users == {"u1", "u2"}
FileNames == {"f1", "f2"}

VARIABLES tasks, stages, today, last, req

vars == <<tasks, stages, today, last, req>>

\* ------------------------------------------------------------------ options
None == {}
Some(x) == {x}
The(o) == CHOOSE x \in o : TRUE

\* ------------------------------------------------------------------ stages
\* The rows a TaskStage table can hold: the four boolean flags of a stage and
\* its position in the table's ordering.
StageRow ==
    [ pending  |-> [active |-> TRUE,  done |-> FALSE, default |-> TRUE,
                    in_progress |-> FALSE, index |-> 1],
      started  |-> [active |-> TRUE,  done |-> FALSE, default |-> FALSE,
                    in_progress |-> TRUE,  index |-> 2],
      done     |-> [active |-> FALSE, done |-> TRUE,  default |-> FALSE,
                    in_progress |-> FALSE, index |-> 3],
      canceled |-> [active |-> FALSE, done |-> FALSE, default |-> FALSE,
                    in_progress |-> FALSE, index |-> 4] ]

StageNames == DOMAIN StageRow

\* The stage tables an installation starts with: the full table, one with no
\* stage flagged done, one with no stage flagged default.
StageTables ==
    { StageNames, StageNames \ {"done"}, StageNames \ {"pending"} }

\* stage.<flag> of a nullable stage; a missing stage is falsy in every test.
StageIs(st, flag) == st # None /\ StageRow[The(st)][flag]

\* TaskStage.objects.filter(<flag>=True).first()
FirstStage(flag) ==
    LET c == {s \in stages : StageRow[s][flag]}
    IN  IF c = {} THEN None
        ELSE Some(CHOOSE s \in c : \A o \in c : StageRow[s].index <= StageRow[o].index)

\* ------------------------------------------------------------------ rows
NoFiles == [f \in FileNames |-> 0]

Ids(db) == 1..Len(db)

\* Task.objects.filter(task=main)
SubTasks(db, m) == {c \in Ids(db) : db[c].task = Some(m)}

\* ------------------------------------------------------------------ Task
\* Task.clean() testing the done flag of the submitted stage instead of its
\* active flag: closing into a stage that is inactive but not done passes.
TaskCleanDoneOnly(db, id, obj) ==
    IF /\ id # 0
       /\ obj.task = None
       /\ obj.stage # None
       /\ StageRow[The(obj.stage)].done
       /\ \E c \in Ids(db) : db[c].task = Some(id) /\ StageIs(db[c].stage, "active")
    THEN {"stage"}
    ELSE {}

\* Task.clean(): the fields that get a ValidationError.  `id` is 0 for an
\* instance that is not saved yet; `obj` carries the submitted values.
TaskClean(db, id, obj) ==
    IF /\ id # 0
       /\ obj.task = None
       /\ obj.stage # None
       /\ ~StageRow[The(obj.stage)].active
       /\ \E c \in Ids(db) : db[c].task = Some(id) /\ StageIs(db[c].stage, "active")
    THEN {"stage"}
    ELSE {}

\* Task.save() without the assignment of active.
TaskSaveNoSync(obj) == obj

\* Task.save(): active follows the stage when there is one.
TaskSave(obj) ==
    [obj EXCEPT !.active = IF obj.stage # None THEN StageRow[The(obj.stage)].active
                           ELSE @]

\* Writing the instance `inst` of row m back: the columns of the row; the
\* many-to-many responsible set and the attached files are other tables.
SaveInstance(db, m, inst) ==
    [db EXCEPT ![m] = [TaskSave(inst) EXCEPT !.responsible = db[m].responsible,
                                             !.files = db[m].files]]

\* The test of check_and_deacte_main_task() without the in-progress
\* alternative.
MustDeactivateDefaultOnly(db, m, mt) ==
    /\ mt.stage # None
    /\ StageIs(mt.stage, "default")
    /\ ~\E c \in SubTasks(db, m) : db[c].active
    /\ LET done_subtasks == {c \in SubTasks(db, m) :
                                StageIs(db[c].stage, "done") /\ ~db[c].active}
           done_responsible == UNION {db[c].responsible : c \in done_subtasks}
       IN  db[m].responsible = done_responsible
    /\ FirstStage("done") # None

\* The test of check_and_deacte_main_task() on the main task instance `mt`
\* of row m: TRUE when the main task is to be closed.
MustDeactivate(db, m, mt) ==
    /\ mt.stage # None
    /\ (StageIs(mt.stage, "default") \/ StageIs(mt.stage, "in_progress"))
    /\ ~\E c \in SubTasks(db, m) : db[c].active
    /\ LET done_subtasks == {c \in SubTasks(db, m) :
                                StageIs(db[c].stage, "done") /\ ~db[c].active}
           done_responsible == UNION {db[c].responsible : c \in done_subtasks}
       IN  db[m].responsible = done_responsible
    /\ FirstStage("done") # None

\* check_and_deacte_main_task() that forgets the closing date.
CheckAndDeactNoClosingDate(db, id, mt) ==
    IF db[id].task = None THEN db
    ELSE LET m == The(db[id].task)
         IN  IF MustDeactivate(db, m, mt)
             THEN SaveInstance(db, m, [mt EXCEPT !.stage = FirstStage("done"),
                                                 !.next_step_date = Some(today)])
             ELSE db

\* check_and_deacte_main_task() of task id, whose cached self.task is the
\* instance mt.
CheckAndDeact(db, id, mt) ==
    IF db[id].task = None THEN db
    ELSE LET m == The(db[id].task)
         IN  IF MustDeactivate(db, m, mt)
             THEN SaveInstance(db, m, [mt EXCEPT !.stage = FirstStage("done"),
                                                 !.next_step_date = Some(today),
                                                 !.closing_date = Some(today)])
             ELSE db

\* copy_files_to_maintask() of task id.
CopyFiles(db, id) ==
    IF db[id].task = None THEN db
    ELSE LET m == The(db[id].task)
             maintask_files == {f \in FileNames : db[m].files[f] > 0}
         IN  [db EXCEPT ![m].files =
                 [f \in FileNames |->
                     IF f \in maintask_files THEN db[m].files[f]
                     ELSE db[m].files[f] + db[id].files[f]]]

\* ------------------------------------------------------------------ forms
\* The initial values of the form: the stored row of a change form, the
\* initial data of an add form.
Initial(db, form) ==
    IF form.id # 0 THEN db[form.id]
    ELSE [task |-> None, stage |-> FirstStage("default"), active |-> TRUE,
          responsible |-> {}, due_date |-> None,
          next_step_date |-> Some(today + 1), closing_date |-> None,
          remind_me |-> FALSE, files |-> NoFiles]

\* form.changed_data
ChangedData(db, form) ==
    LET init == Initial(db, form)
    IN  {f \in {"task", "stage", "responsible", "due_date", "next_step_date",
                "remind_me"} : form[f] # init[f]}

\* clean_next_step_date(form) without the remind_me alternative.
CleanNextStepDateChangedOnly(changed, form) ==
    /\ "next_step_date" \in changed
    /\ form.next_step_date # None
    /\ The(form.next_step_date) < today

\* clean_next_step_date(form): TRUE when it raises.
CleanNextStepDate(changed, form) ==
    /\ \/ "next_step_date" \in changed
       \/ ("remind_me" \in changed /\ form.remind_me)
    /\ form.next_step_date # None
    /\ The(form.next_step_date) < today

\* TaskBaseForm.clean(): the field of the first ValidationError raised.
TaskBaseFormClean(changed, form) ==
    IF CleanNextStepDate(changed, form) THEN {"next_step_date"}
    ELSE IF /\ "due_date" \in changed
            /\ form.due_date # None
            /\ The(form.due_date) < today
         THEN {"due_date"}
    ELSE IF /\ "responsible" \in changed
            /\ form.task # None
            /\ form.responsible # {}
            /\ Cardinality(form.responsible) > 1
         THEN {"responsible"}
    ELSE {}

\* TaskBaseForm.clean_responsible(): an empty selection is an error.
CleanResponsible(form) ==
    IF form.responsible = {} THEN {"responsible"} ELSE {}

\* The errors of the whole validation of a submission: the form's field and
\* form checks, then the model's clean() on the instance built from it.
FormErrors(db, form) ==
    CleanResponsible(form)
        \cup TaskBaseFormClean(ChangedData(db, form), form)
        \cup TaskClean(db, form.id, form)

\* ------------------------------------------------------------------ admin
ObjId(db, form) == IF form.id = 0 THEN Len(db) + 1 ELSE form.id

\* TaskAdmin.save_model(): the stage defaults, the "_completed" button, the
\* closing date, then Task.save().  The responsible set is not written here.
SaveModel(db, form) ==
    LET old == Initial(db, form)
        stage == IF form.stage = None THEN FirstStage("default") ELSE form.stage
        stage2 == IF form.completed THEN FirstStage("done") ELSE stage
        closing == IF form.completed \/ (stage # None /\ ~StageRow[The(stage)].active)
                   THEN Some(today) ELSE old.closing_date
        obj == TaskSave([old EXCEPT !.task = form.task,
                                    !.stage = stage2,
                                    !.due_date = form.due_date,
                                    !.next_step_date = form.next_step_date,
                                    !.remind_me = form.remind_me,
                                    !.closing_date = closing])
    IN  IF form.id = 0 THEN Append(db, obj) ELSE [db EXCEPT ![form.id] = obj]

\* super().save_related(): the form's many-to-many data is written.
SaveM2M(db, id, form) == [db EXCEPT ![id].responsible = form.responsible]

\* The cascade test without main_stage.default.
CascadeAppliesAnyMain(main_stage, obj_stage) ==
    /\ main_stage # None
    /\ obj_stage # None
    /\ StageIs(obj_stage, "in_progress")

\* The stage cascade of TaskAdmin.save_related(): the instance of the main
\* task after it, and whether it was saved.
CascadeApplies(main_stage, obj_stage) ==
    /\ main_stage # None
    /\ obj_stage # None
    /\ StageIs(main_stage, "default")
    /\ StageIs(obj_stage, "in_progress")

CascadeStage(db, id, mt) ==
    IF CascadeApplies(mt.stage, db[id].stage)
    THEN [mt EXCEPT !.stage = db[id].stage]
    ELSE mt

\* The condition of save_related() under which the files are copied and
\* check_and_deacte_main_task() is called.
CallsCheck(db, id) == db[id].task # None /\ ~db[id].active

\* TaskAdmin.save_related() after save_model(): mt0 is the instance of the
\* main task that the request holds (obj.task).
SaveRelated(db0, id, form, mt0) ==
    LET db1 == SaveM2M(db0, id, form)
    IN  IF db1[id].task = None THEN db1
        ELSE LET m == The(db1[id].task)
                 mt1 == CascadeStage(db1, id, mt0)
                 db2 == IF CascadeApplies(mt0.stage, db1[id].stage)
                        THEN SaveInstance(db1, m, mt1) ELSE db1
                 mt2 == IF CascadeApplies(mt0.stage, db1[id].stage)
                        THEN TaskSave(mt1) ELSE mt1
             IN  IF CallsCheck(db2, id)
                 THEN CheckAndDeact(CopyFiles(db2, id), id, mt2)
                 ELSE db2

\* One accepted request: save_model() then save_related().
Accepted(db, form) ==
    LET id == ObjId(db, form)
        db0 == SaveModel(db, form)
    IN  IF form.task = None THEN SaveRelated(db0, id, form, db0[id])
        ELSE SaveRelated(db0, id, form, db[The(form.task)])

\* What the request leaves behind for the properties: the submission, its
\* errors, the row of the task before it (the form's initial values for a new
\* task), whether an active-stage sub-task of it existed, and the row of the
\* main task before the stage cascade and after it.
Trace(db, form, errors) ==
    LET id == ObjId(db, form)
        db1 == SaveM2M(SaveModel(db, form), id, form)
        sub == errors = {} /\ form.task # None
    IN  [op |-> "submit", form |-> form, id |-> id, errors |-> errors,
         changed |-> ChangedData(db, form),
         old |-> Initial(db, form),
         activeSub |-> \E c \in Ids(db) :
                           db[c].task = Some(form.id) /\ StageIs(db[c].stage, "active"),
         main0 |-> IF sub THEN Some(db[The(form.task)]) ELSE None,
         main1 |-> IF sub THEN Some(CascadeStage(db1, id, db[The(form.task)]))
                   ELSE None,
         checked |-> sub /\ CallsCheck(db1, id)]

NoTrace ==
    [op |-> "none", form |-> None, id |-> 0, errors |-> {}, changed |-> {},
     old |-> None, activeSub |-> FALSE, main0 |-> None, main1 |-> None,
     checked |-> FALSE]

\* A submission of the task form to the admin: rejected when the validation
\* finds an error, saved otherwise.
Submit(form) ==
    LET errors == FormErrors(tasks, form)
    IN  /\ last = NoTrace
        /\ tasks' = IF errors = {} THEN Accepted(tasks, form) ELSE tasks
        /\ last' = Trace(tasks, form, errors)
        /\ UNCHANGED <<stages, today, req>>

\* The response of the change view: the request is over, the next one starts
\* from the stored rows alone.
Respond ==
    /\ last # NoTrace
    /\ last' = NoTrace
    /\ UNCHANGED <<tasks, stages, today, req>>

\* The ids a form can be submitted for: 0 adds a task while fewer than
\* `limit` exist.
FormIds(limit) == {j \in 0..Len(tasks) : j # 0 \/ Len(tasks) < limit}

OptionsOf(S) == {None} \cup {Some(x) : x \in S}

\* ------------------------------------------------------------------ Spec
\* The life cycle of tasks and sub-tasks: every parent (the hidden 'task'
\* field is posted like any other), stage, responsible selection and button;
\* the dates are posted as the form shows them.
AdminSubmit ==
    \E i \in FormIds(MaxTasks), p \in OptionsOf(Ids(tasks)), s \in OptionsOf(stages),
       r \in (SUBSET Users) \ {{}}, c \in BOOLEAN :
        /\ p # Some(i)
        /\ Submit([id |-> i, task |-> p, stage |-> s, responsible |-> r,
                   due_date |-> Initial(tasks, [id |-> i]).due_date,
                   next_step_date |-> Initial(tasks, [id |-> i]).next_step_date,
                   remind_me |-> Initial(tasks, [id |-> i]).remind_me,
                   completed |-> c])

Init ==
    /\ tasks = <<>>
    /\ stages \in StageTables
    /\ today = 0
    /\ last = NoTrace
    /\ req = <<>>

Next == AdminSubmit \/ Respond

Spec == Init /\ [][Next]_vars

\* ------------------------------------------------------------------ SpecTree
\* The hierarchy as the admin pages build it: a task gets its main task when
\* it is added (the "add sub-task" link) and keeps it afterwards.
AddTask ==
    \E p \in OptionsOf(Ids(tasks)), s \in OptionsOf(stages),
       r \in (SUBSET Users) \ {{}} :
        /\ Len(tasks) < MaxTreeTasks
        /\ Submit([id |-> 0, task |-> p, stage |-> s, responsible |-> r,
                   due_date |-> None, next_step_date |-> Some(today + 1),
                   remind_me |-> FALSE, completed |-> FALSE])

ChangeTask ==
    \E i \in Ids(tasks), s \in OptionsOf(stages), c \in BOOLEAN :
        Submit([id |-> i, task |-> tasks[i].task, stage |-> s,
                responsible |-> tasks[i].responsible,
                due_date |-> tasks[i].due_date,
                next_step_date |-> tasks[i].next_step_date,
                remind_me |-> tasks[i].remind_me, completed |-> c])

InitTree ==
    /\ tasks = <<>>
    /\ stages \in {StageNames, StageNames \ {"done"}}
    /\ today = 0
    /\ last = NoTrace
    /\ req = <<>>

NextTree == AddTask \/ ChangeTask \/ Respond

SpecTree == InitTree /\ [][NextTree]_vars

\* ------------------------------------------------------------------ SpecDates
\* The date fields of the form: every due date, next step date and reminder
\* flag, on days that pass.
DateSubmit ==
    \E i \in FormIds(MaxDateTasks), d \in OptionsOf(0..(MaxDay + 1)),
       n \in OptionsOf(0..(MaxDay + 1)), rm \in BOOLEAN, r \in {{}, {"u1"}} :
        Submit([id |-> i, task |-> None, stage |-> FirstStage("default"),
                responsible |-> r, due_date |-> d, next_step_date |-> n,
                remind_me |-> rm, completed |-> FALSE])

\* get_today() moves on between two requests.
NextDay ==
    /\ last = NoTrace
    /\ today < MaxDay
    /\ today' = today + 1
    /\ UNCHANGED <<tasks, stages, last, req>>

InitDates ==
    /\ tasks = <<>>
    /\ stages = StageNames
    /\ today = 0
    /\ last = NoTrace
    /\ req = <<>>

NextDates == DateSubmit \/ NextDay \/ Respond

SpecDates == InitDates /\ [][NextDates]_vars

\* ------------------------------------------------------------------ SpecFiles
\* A main task and its sub-task with files attached to both (a file can be
\* attached to a task more than once: every attachment is a row of its own),
\* and the stage changes that close and reopen them.
FileBags == [FileNames -> 0..MaxCopies]

FileRow(p, s, fs) ==
    [task |-> p, stage |-> Some(s), active |-> StageRow[s].active,
     responsible |-> {"u1"}, due_date |-> None, next_step_date |-> None,
     closing_date |-> None, remind_me |-> FALSE, files |-> fs]

StageSubmit ==
    \E i \in Ids(tasks), s \in {"pending", "done"} :
        Submit([id |-> i, task |-> tasks[i].task, stage |-> Some(s),
                responsible |-> tasks[i].responsible,
                due_date |-> tasks[i].due_date,
                next_step_date |-> tasks[i].next_step_date,
                remind_me |-> tasks[i].remind_me, completed |-> FALSE])

InitFiles ==
    /\ \E mf \in FileBags, sf \in FileBags, s \in {"pending", "started"} :
          tasks = <<FileRow(None, s, mf), FileRow(Some(1), "pending", sf)>>
    /\ stages = StageNames
    /\ today = 0
    /\ last = NoTrace
    /\ req = <<>>

NextFiles == StageSubmit \/ Respond

SpecFiles == InitFiles /\ [][NextFiles]_vars

\* ------------------------------------------------------------------ SpecConc
\* Two admin requests at once, each closing one of the two sub-tasks of task
\* 1.  A request works inside the transaction of the admin view: it reads the
\* committed rows and its own writes, and its writes reach the other request
\* when it commits, at its end.
Requests == {1, 2}

SubOf(r) == r + 1

\* The rows request r reads.
View(r) ==
    [i \in 1..Len(tasks) |->
        IF req[r].rows[i] # None THEN The(req[r].rows[i]) ELSE tasks[i]]

\* The rows of `new` that differ from what r read are r's writes.
Written(r, new) ==
    [i \in 1..Len(tasks) |->
        IF new[i] # View(r)[i] THEN Some(new[i]) ELSE req[r].rows[i]]

CloseForm(r, s) ==
    [id |-> SubOf(r), task |-> Some(1), stage |-> Some(s),
     responsible |-> tasks[SubOf(r)].responsible,
     due_date |-> tasks[SubOf(r)].due_date,
     next_step_date |-> tasks[SubOf(r)].next_step_date,
     remind_me |-> tasks[SubOf(r)].remind_me, completed |-> FALSE]

\* The form is valid and save_model() writes the sub-task; the request holds
\* the main task as the form loaded it.
ReqSaveModel(r) ==
    \E s \in {"done", "canceled"} :
        /\ req[r].pc = "start"
        /\ FormErrors(View(r), CloseForm(r, s)) = {}
        /\ req' = [req EXCEPT ![r] =
                      [pc |-> "saved", form |-> Some(CloseForm(r, s)),
                       inst |-> Some(View(r)[1]),
                       rows |-> Written(r, SaveModel(View(r), CloseForm(r, s)))]]
        /\ UNCHANGED <<tasks, stages, today, last>>

\* save_related(): the cascade, the files and check_and_deacte_main_task(),
\* on the rows the request reads now.
ReqSaveRelated(r) ==
    /\ req[r].pc = "saved"
    /\ req' = [req EXCEPT ![r].pc = "related",
                          ![r].rows = Written(r, SaveRelated(View(r), SubOf(r),
                                                  The(req[r].form), The(req[r].inst)))]
    /\ UNCHANGED <<tasks, stages, today, last>>

\* The view returns and its transaction commits.
ReqCommit(r) ==
    /\ req[r].pc = "related"
    /\ tasks' = View(r)
    /\ req' = [req EXCEPT ![r].pc = "done", ![r].rows = [i \in 1..Len(tasks) |-> None]]
    /\ UNCHANGED <<stages, today, last>>

ConcRow(p, s, r) ==
    [task |-> p, stage |-> Some(s), active |-> StageRow[s].active,
     responsible |-> r, due_date |-> None, next_step_date |-> None,
     closing_date |-> None, remind_me |-> FALSE, files |-> NoFiles]

InitConc ==
    /\ \E ms \in {"pending", "started"}, mr \in (SUBSET Users) \ {{}},
          r2 \in {{u} : u \in Users}, r3 \in {{u} : u \in Users} :
          tasks = <<ConcRow(None, ms, mr), ConcRow(Some(1), "started", r2),
                    ConcRow(Some(1), "started", r3)>>
    /\ stages = StageNames
    /\ today = 0
    /\ last = NoTrace
    /\ req = [r \in Requests |->
                 [pc |-> "start", form |-> None, inst |-> None,
                  rows |-> [i \in 1..3 |-> None]]]

NextConc ==
    \E r \in Requests : ReqSaveModel(r) \/ ReqSaveRelated(r) \/ ReqCommit(r)

SpecConc == InitConc /\ [][NextConc]_vars

\* ------------------------------------------------------------------ properties
Submitted == last.op = "submit"
AcceptedReq == Submitted /\ last.errors = {}

\* The request closes a saved task: the submitted stage is not active.
ClosesSaved ==
    /\ Submitted
    /\ last.form.id # 0
    /\ last.form.stage # None
    /\ ~StageRow[The(last.form.stage)].active

C2_NoClosedMainWithActiveSub ==
    \A c \in Ids(tasks) :
        (tasks[c].task # None /\ tasks[c].active) => tasks[The(tasks[c].task)].active

\* The main task of the request and what check_and_deacte_main_task() reads.
MainId == The(last.form.task)

NoActiveSub(m) == \A c \in SubTasks(tasks, m) : ~tasks[c].active

DoneResponsible(m) ==
    UNION {tasks[c].responsible :
              c \in {d \in SubTasks(tasks, m) :
                        StageIs(tasks[d].stage, "done") /\ ~tasks[d].active}}

OpenStage(st) == StageIs(st, "default") \/ StageIs(st, "in_progress")

C4_SubTaskOneResponsible ==
    \A t \in Ids(tasks) :
        tasks[t].task # None => Cardinality(tasks[t].responsible) <= 1

\* C6: check_and_deacte_main_task() was called.  When the main task had a
\* default or in-progress stage, none of its sub-tasks is active, its
\* responsible users are those of its done and inactive sub-tasks and a done
\* stage exists, the main task has the done stage and today as next step date
\* and closing date; otherwise its stage, dates and active flag are as before.
C6_DeactivateOnlyWhenAllHold ==
    last.checked =>
        LET before == The(last.main1)
            after == tasks[MainId]
        IN  IF /\ before.stage # None
               /\ OpenStage(before.stage)
               /\ NoActiveSub(MainId)
               /\ after.responsible = DoneResponsible(MainId)
               /\ FirstStage("done") # None
            THEN /\ after.stage = FirstStage("done")
                 /\ after.next_step_date = Some(today)
                 /\ after.closing_date = Some(today)
            ELSE /\ after.stage = before.stage
                 /\ after.next_step_date = before.next_step_date
                 /\ after.closing_date = before.closing_date
                 /\ after.active = before.active

C6_Witness ==
    /\ last.checked
    /\ OpenStage(The(last.main1).stage)
    /\ tasks[MainId].stage = Some("done")
    /\ tasks[MainId].closing_date = Some(today)
    /\ The(last.main1).closing_date = None

\* C7: the stage cascade of save_related().  A sub-task saved in an
\* in-progress stage under a main task in a default stage gives the main task
\* its stage; in every other case the cascade leaves the stage of the main
\* task alone, and no save of a sub-task moves a main task from a done stage
\* to an in-progress one.
C7_StageCascade ==
    (AcceptedReq /\ last.main0 # None) =>
        LET m0 == The(last.main0)
            m1 == The(last.main1)
            obj == tasks[last.id]
        IN  /\ (StageIs(m0.stage, "default") /\ StageIs(obj.stage, "in_progress"))
                  => (m1.stage = obj.stage /\ tasks[MainId].stage = obj.stage)
            /\ ~(StageIs(m0.stage, "default") /\ StageIs(obj.stage, "in_progress"))
                  => m1.stage = m0.stage
            /\ ~(StageIs(m0.stage, "done") /\ StageIs(tasks[MainId].stage, "in_progress"))

C7_Witness ==
    /\ AcceptedReq /\ last.main0 # None
    /\ StageIs(The(last.main0).stage, "default")
    /\ StageIs(tasks[last.id].stage, "in_progress")
    /\ tasks[MainId].stage = tasks[last.id].stage

\* C9: a stored task with a stage has the active flag of its stage, and a
\* task saved with no stage has the active value it had before the save.
C9_ActiveFollowsStage ==
    /\ \A t \in Ids(tasks) :
          tasks[t].stage # None => tasks[t].active = StageRow[The(tasks[t].stage)].active
    /\ (AcceptedReq /\ tasks[last.id].stage = None)
          => tasks[last.id].active = last.old.active

C9_Witness ==
    /\ AcceptedReq
    /\ tasks[last.id].stage = None
    /\ ~tasks[last.id].active
    /\ last.old.stage # None

\* The submitted date d is in the past.
Past(d) == d # None /\ The(d) < today

DueChanged == last.form.due_date # last.old.due_date

NextStepChecked ==
    \/ last.form.next_step_date # last.old.next_step_date
    \/ (last.form.remind_me # last.old.remind_me /\ last.form.remind_me)

\* C5 as stated: a changed due date in the past gets an error on 'due_date',
\* a next step date in the past that was changed, or whose reminder was
\* switched on, gets an error on 'next_step_date', and dates that are not in
\* the past get neither.
C5_PastDatesRejected ==
    Submitted =>
        /\ (DueChanged /\ Past(last.form.due_date)) => "due_date" \in last.errors
        /\ (NextStepChecked /\ Past(last.form.next_step_date))
              => "next_step_date" \in last.errors
        /\ (~Past(last.form.due_date) /\ ~Past(last.form.next_step_date))
              => (last.errors \cap {"due_date", "next_step_date"} = {})

\* C5 amended: the changed past due date is rejected, with the error on
\* 'due_date' when the next step date check does not reject the submission
\* first; the rest as stated.
C5_PastDatesRejectedFirstError ==
    Submitted =>
        /\ (DueChanged /\ Past(last.form.due_date))
              => /\ last.errors # {}
                 /\ ~(NextStepChecked /\ Past(last.form.next_step_date))
                       => "due_date" \in last.errors
        /\ (NextStepChecked /\ Past(last.form.next_step_date))
              => "next_step_date" \in last.errors
        /\ (~Past(last.form.due_date) /\ ~Past(last.form.next_step_date))
              => (last.errors \cap {"due_date", "next_step_date"} = {})

C5_Witness ==
    /\ Submitted
    /\ DueChanged /\ Past(last.form.due_date)
    /\ "due_date" \in last.errors
    /\ Past(last.old.next_step_date)
    /\ last.form.next_step_date = last.old.next_step_date

\* No file is attached twice in the bag b.
NoDuplicate(b) == \A f \in FileNames : b[f] <= 1

\* What copy_files_to_maintask() did in the request: every file of the
\* sub-task is on the main task, the files the main task had are attached as
\* often as before, and a call that finds every file on the main task adds
\* none; a task without a main task copies nothing.
CopiedFiles(before, after, sub) ==
    /\ \A f \in FileNames : sub[f] > 0 => after[f] > 0
    /\ \A f \in FileNames : before[f] > 0 => after[f] = before[f]
    /\ (\A f \in FileNames : sub[f] > 0 => before[f] > 0) => after = before

NoMainNoCopy ==
    \A t \in Ids(tasks) : tasks[t].task = None => CopyFiles(tasks, t) = tasks

\* C8: copy_files_to_maintask() was called: the above, and a main task that
\* had no file attached twice has none attached twice afterwards.
C8_CopyUniqueFiles ==
    /\ NoMainNoCopy
    /\ last.checked =>
          LET before == The(last.main1).files
              after == tasks[MainId].files
          IN  /\ CopiedFiles(before, after, tasks[last.id].files)
              /\ NoDuplicate(before) => NoDuplicate(after)

\* C10: both requests have finished, both sub-tasks are done and inactive, the
\* responsible users of the main task are those of the sub-tasks and a done
\* stage exists: the main task is closed.
C10_BothDoneMainClosed ==
    (/\ req # <<>>
     /\ \A r \in Requests : req[r].pc = "done"
     /\ \A c \in SubTasks(tasks, 1) : StageIs(tasks[c].stage, "done") /\ ~tasks[c].active
     /\ tasks[1].responsible = DoneResponsible(1)
     /\ FirstStage("done") # None)
        => (tasks[1].stage = FirstStage("done") /\ ~tasks[1].active)

====
